---------------------------- MODULE Spec2Model ----------------------------
(***************************************************************************)
(* A model of minestatus.go, in two specifications.                        *)
(*                                                                         *)
(* Spec is GetStatus, the Minecraft Server List Ping client, byte by byte: *)
(* one behaviour is one invocation of GetStatus against one server.  The   *)
(* configuration (host, port) and what the server sends are chosen in      *)
(* Init; the variables host to panicv are locals of GetStatus or the       *)
(* state of the objects it builds (the bufio writer, the TCP connection).  *)
(*                                                                         *)
(* ServeSpec is the process: main from the opening of the configuration    *)
(* file to http.ListenAndServe, and the requests net/http then serves      *)
(* concurrently, each through the handler, StatusRespond, StatusReport and *)
(* an invocation of GetStatus of its own.  There GetStatus takes three     *)
(* steps (the dial, the writes with the flush, the reads with the decoding *)
(* and the extraction); what the third comes to is computed by the         *)
(* operators of Spec, and OutcomeAgrees checks that it is what the steps   *)
(* of Spec come to.  The variables mpc to reqs are its state; each         *)
(* specification leaves the variables of the other as they start.          *)
(*                                                                         *)
(* Bytes are the integers 0..255; a string is the sequence of its bytes.   *)
(***************************************************************************)
EXTENDS Integers, Sequences, FiniteSets, TLC

VARIABLES
    host,      \* Config.MinecraftHost, as bytes
    port,      \* Config.MinecraftPort
    resp,      \* environment: the bytes the server sends on the connection
    srvMode,   \* environment: after resp, the server "close"s or stays "silent"
    pc,        \* position of GetStatus
    dials,     \* how many times GetStatus has called net.DialTCP
    conn,      \* netConn: "none", "open" or "closed"
    data,      \* the written prefix of the scratch array data (the rest is 0)
    n,         \* the local n (last PutUvarint result)
    wbuf,      \* bufio.Writer: bytes buffered and not yet written to netConn
    werr,      \* bufio.Writer: its sticky error
    wire,      \* bytes netConn has accepted, in order
    rpos,      \* number of bytes of resp consumed through conn
    i,         \* the loop counter of the discard loop
    info,      \* the map info: a sequence of <<key, value>> members
    err,       \* the named result err
    stat,      \* the named result stat: <<>> is nil, <<r>> points to r
    panicv,    \* the value GetStatus panicked with, <<>> while it has not
    mpc,       \* position of main
    Config,    \* the global Config: <<>> until main has decoded it
    MinecraftAddress,  \* the global MinecraftAddress: <<>> is nil
    calls,     \* the invocation of GetStatus of each caller
    conns,     \* the TCP connections DialTCP has opened
    reqs       \* the handler of each request

vars == <<host, port, resp, srvMode, pc, dials, conn, data, n, wbuf, werr, wire,
          rpos, i, info, err, stat, panicv,
          mpc, Config, MinecraftAddress, calls, conns, reqs>>

-----------------------------------------------------------------------------
(* Bounds of the model and constants of the program.                       *)

\* Every host length 0..MaxShortHost is modelled (9 is the length of
\* "localhost"), and the lengths around the one-byte/two-byte VarInt border.
MaxShortHost == 10

\* The requests the server gets, at most.
MaxRequests == 2

\* The caller of GetStatus that is main; the requests are 1..MaxRequests.
Main == 0

\* The default buffer size of bufio.NewWriter.
BufSize == 4096

\* len(data)
DataLen == 256

\* The number of bytes the discard loop throws away.
DiscardCount == 5

\* The first byte written: uint8(0x0F).
LenPrefixByte == 15

\* The protocol version and the next state written into the handshake, and
\* the packet id.
ProtocolVersion == 5
NextStateStatus == 1
PacketId == 0

\* "localhost"
Host_localhost == <<108, 111, 99, 97, 108, 104, 111, 115, 116>>

\* A host name of len bytes: "localhost" repeated and cut.
HostOf(len) == [k \in 1..len |-> Host_localhost[((k - 1) % 9) + 1]]

\* A resolvable name has at most 253 bytes; the empty host resolves too.
HostLens == (0..MaxShortHost) \cup {127, 128, 253}

Hosts == {HostOf(l) : l \in HostLens}

\* 25565 is the Minecraft default (0x63DD); 80 has a zero high byte.
Ports == {25565, 80}

-----------------------------------------------------------------------------
(* encoding/binary                                                         *)

RECURSIVE UvarintBytes(_)
\* binary.PutUvarint: the bytes it stores for x.
UvarintBytes(x) ==
    IF x >= 128 THEN <<(x % 128) + 128>> \o UvarintBytes(x \div 128)
    ELSE <<x>>

\* data after binary.PutUvarint(data, x): the first bytes are overwritten.
PutUvarint(d, x) ==
    LET enc == UvarintBytes(x) IN
    IF Len(d) > Len(enc) THEN enc \o SubSeq(d, Len(enc) + 1, Len(d)) ELSE enc

\* data[:k], the untouched part of the array being zero.
DataWhole(d, k) == [j \in 1..DataLen |-> IF j <= Len(d) THEN d[j] ELSE 0]
DataPrefix(d, k) == [j \in 1..k |-> IF j <= Len(d) THEN d[j] ELSE 0]

\* binary.Write of a uint16 in binary.BigEndian, after the conversion
\* uint16(Config.MinecraftPort).
PortBytesLE(p) == <<(p % 65536) % 256, (p % 65536) \div 256>>
PortBytes(p) == <<(p % 65536) \div 256, (p % 65536) % 256>>

-----------------------------------------------------------------------------
(* bufio.Writer over netConn                                               *)

\* bufio.Writer.Write of p for a p that fits the buffer (WritesFit checks
\* that every write of the model does): a sticky error is returned and
\* nothing is buffered; otherwise p is appended to the buffer.
BufioWrite(buf, berr, p) ==
    IF berr # "nil" THEN [buf |-> buf, err |-> berr]
    ELSE [buf |-> buf \o p, err |-> "nil"]

\* netConn after the deferred netConn.Close() has run.
DeferredCloseOnlyOnReturn(c, how) == IF c = "open" /\ how = "return" THEN "closed" ELSE c
DeferredClose(c, how) == IF c = "open" THEN "closed" ELSE c

-----------------------------------------------------------------------------
(* JSON values.  Every value is a record of one shape: t is the kind       *)
(* ("obj", "str", "num", "bool", "null"; "nil" is Go's nil interface, what *)
(* a map lookup of a missing key yields; "absent" marks a member a server  *)
(* leaves out), s the bytes of a string, n a number, m the members of an   *)
(* object in order, each a pair <<key, value>>.                            *)

JVal(t, s, x, m) == [t |-> t, s |-> s, n |-> x, m |-> m]
JStr(s) == JVal("str", s, 0, <<>>)
JNum(x) == JVal("num", <<>>, x, <<>>)
\* The number x.f, f being the digits of its fraction.
JFrac(x, f) == JVal("num", f, x, <<>>)
JObj(m) == JVal("obj", <<>>, 0, m)
JBool(b) == JVal("bool", <<>>, IF b THEN 1 ELSE 0, <<>>)
JNull == JVal("null", <<>>, 0, <<>>)
JNil == JVal("nil", <<>>, 0, <<>>)
JAbsent == JVal("absent", <<>>, 0, <<>>)

\* The keys GetStatus looks up.
\* "version"
Key_version == <<118, 101, 114, 115, 105, 111, 110>>
\* "players"
Key_players == <<112, 108, 97, 121, 101, 114, 115>>
\* "protocol"
Key_protocol == <<112, 114, 111, 116, 111, 99, 111, 108>>
\* "name"
Key_name == <<110, 97, 109, 101>>
\* "description"
Key_description == <<100, 101, 115, 99, 114, 105, 112, 116, 105, 111, 110>>
\* "online"
Key_online == <<111, 110, 108, 105, 110, 101>>
\* "max"
Key_max == <<109, 97, 120>>

\* Keys and strings only servers use.
\* "text"
Key_text == <<116, 101, 120, 116>>
\* "favicon"
Key_favicon == <<102, 97, 118, 105, 99, 111, 110>>
\* "1.7.10"
Str_ServerVersion == <<49, 46, 55, 46, 49, 48>>
\* "A Minecraft Server"
Str_Motd == <<65, 32, 77, 105, 110, 101, 99, 114, 97, 102, 116, 32, 83, 101, 114, 118, 101, 114>>
\* "data:image/png;base64,iVBORw0KGgoAAAANSUhEUgAAAEAAAABACAYAAACqaXHe"
Str_Favicon == <<100, 97, 116, 97, 58, 105, 109, 97, 103, 101, 47, 112, 110, 103, 59, 98, 97, 115, 101, 54, 52, 44, 105, 86, 66, 79, 82, 119, 48, 75, 71, 103, 111, 65, 65, 65, 65, 78, 83, 85, 104, 69, 85, 103, 65, 65, 65, 69, 65, 65, 65, 65, 66, 65, 67, 65, 89, 65, 65, 65, 67, 113, 97, 88, 72, 101>>
\* "5"
Str_Five == <<53>>

\* The JSON literals.
\* "null"
Lit_null == <<110, 117, 108, 108>>
\* "true"
Lit_true == <<116, 114, 117, 101>>
\* "false"
Lit_false == <<102, 97, 108, 115, 101>>

-----------------------------------------------------------------------------
(* The server's side: JSON text and frames.                                *)

RECURSIVE DigitsOf(_)
\* The decimal digits of x, as ASCII.
DigitsOf(x) == IF x < 10 THEN <<48 + x>> ELSE DigitsOf(x \div 10) \o <<48 + (x % 10)>>

RECURSIVE Ser(_), SerMembers(_)
\* The JSON text of a value, without white space.
Ser(v) ==
    CASE v.t = "obj" -> <<123>> \o SerMembers(v.m) \o <<125>>
      [] v.t = "str" -> <<34>> \o v.s \o <<34>>
      [] v.t = "num" -> DigitsOf(v.n) \o (IF v.s = <<>> THEN <<>> ELSE <<46>> \o v.s)
      [] v.t = "bool" -> IF v.n = 1 THEN Lit_true ELSE Lit_false
      [] OTHER -> Lit_null
SerMembers(m) ==
    IF Len(m) = 0 THEN <<>>
    ELSE <<34>> \o m[1][1] \o <<34, 58>> \o Ser(m[1][2])
         \o (IF Len(m) > 1 THEN <<44>> \o SerMembers(Tail(m)) ELSE <<>>)

\* The members a server sends: those it does not leave out.
Members(ms) == SelectSeq(ms, LAMBDA p : p[2].t # "absent")

\* A frame as the specification gives it: VarInt(length) ++ VarInt(packetId)
\* ++ payload, the length counting the packet id and the payload.
SpecFrame(payload) == UvarintBytes(Len(payload) + 1) \o <<PacketId>> \o payload

\* x as a VarInt of four bytes, the high groups zero: what a server that
\* reserves the room of the length before it knows it sends.
PaddedVarint(x) ==
    <<(x % 128) + 128, ((x \div 128) % 128) + 128,
      ((x \div 16384) % 128) + 128, (x \div 2097152) % 128>>

\* The specification's frame with the length so padded.
PaddedFrame(payload) == PaddedVarint(Len(payload) + 1) \o <<PacketId>> \o payload

\* A frame as Minecraft servers send it: the payload is a protocol String,
\* the JSON text behind the VarInt of its length.
StringFrame(json) == SpecFrame(UvarintBytes(Len(json)) \o json)

-----------------------------------------------------------------------------
(* encoding/json: the scanner and decoder, for JSON made of objects,       *)
(* strings without escapes, unsigned numbers with or without a fraction    *)
(* and the three literals.  A byte that starts anything else ('[', '-', a  *)
(* backslash in a string, 'e' or 'E' behind a number) gives "unsupported"; *)
(* SupportedJson checks that no input of the model reaches one.  A parse   *)
(* result is                                                               *)
(* [st, v, next]: st is "ok" (v is the value, next the index behind it),   *)
(* "syntax" (a byte no JSON text has there), "more" (the text is a proper  *)
(* prefix of a value) or "unsupported".                                    *)

Ws == {32, 9, 13, 10}
Digits == 48..57

POk(v, k) == [st |-> "ok", v |-> v, next |-> k]
PFail(st) == [st |-> st, v |-> JNull, next |-> 0]

\* The first index from k on whose byte is in set; Len(s) + 1: none is.
FirstIn(s, k, set) ==
    CHOOSE j \in k..(Len(s) + 1) :
        /\ j = Len(s) + 1 \/ s[j] \in set
        /\ \A l \in k..(j - 1) : s[l] \notin set

\* The first index from k on that holds no white space (Len(s) + 1: none).
SkipWs(s, k) == FirstIn(s, k, (0..255) \ Ws)

\* What ends the text of a string: the closing quote, an escape, or a
\* control character, which no string may hold.
StrStop == {34, 92} \cup (0..31)

\* The index of the first such byte in the string whose opening quote is
\* s[k]; Len(s) + 1 when the input ends first.
StrEnd(s, k) == FirstIn(s, k + 1, StrStop)

\* A string, s[k] being its opening quote.
ParseString(s, k) ==
    IF StrEnd(s, k) > Len(s) THEN PFail("more")
    ELSE IF s[StrEnd(s, k)] = 92 THEN PFail("unsupported")
    ELSE IF s[StrEnd(s, k)] # 34 THEN PFail("syntax")
    ELSE POk(JStr(SubSeq(s, k + 1, StrEnd(s, k) - 1)), StrEnd(s, k) + 1)

\* The first index from k on that holds no digit.
NumEnd(s, k) == FirstIn(s, k, (0..255) \ Digits)

RECURSIVE NumVal(_, _, _)
\* The number the digits s[a..b] spell.
NumVal(s, a, b) == IF b < a THEN 0 ELSE NumVal(s, a, b - 1) * 10 + (s[b] - 48)

\* A number, s[k] being its first digit.  A 0 takes no further digit; a
\* '.' takes at least one; the number ends at the first byte that cannot
\* continue it.
ParseNumber(s, k) ==
    LET e == IF s[k] = 48 THEN k + 1 ELSE NumEnd(s, k)
        f == NumEnd(s, e + 1)
    IN IF e > Len(s) THEN PFail("more")
       ELSE IF s[e] \in {69, 101} THEN PFail("unsupported")
       ELSE IF s[e] \in Digits THEN PFail("syntax")
       ELSE IF s[e] # 46 THEN POk(JNum(NumVal(s, k, e - 1)), e)
       ELSE IF f > Len(s) THEN PFail("more")
       ELSE IF f = e + 1 THEN PFail("syntax")
       ELSE IF s[f] \in {69, 101} THEN PFail("unsupported")
       ELSE POk(JFrac(NumVal(s, k, e - 1), SubSeq(s, e + 1, f - 1)), f)

\* One of the literals null, true, false, s[k] being its first byte.
ParseLiteral(s, k, lit, v) ==
    LET have == IF Len(s) - k + 1 < Len(lit) THEN Len(s) - k + 1 ELSE Len(lit) IN
    IF SubSeq(s, k, k + have - 1) # SubSeq(lit, 1, have) THEN PFail("syntax")
    ELSE IF have < Len(lit) THEN PFail("more")
    ELSE POk(v, k + Len(lit))

RECURSIVE ParseValue(_, _), ParseMembers(_, _, _, _)
\* The value that starts at or behind k, white space skipped.
ParseValue(s, k0) ==
    LET k == SkipWs(s, k0) IN
    IF k > Len(s) THEN PFail("more")
    ELSE CASE s[k] = 123 -> ParseMembers(s, k + 1, <<>>, TRUE)
           [] s[k] = 34 -> ParseString(s, k)
           [] s[k] \in Digits -> ParseNumber(s, k)
           [] s[k] = 110 -> ParseLiteral(s, k, Lit_null, JNull)
           [] s[k] = 116 -> ParseLiteral(s, k, Lit_true, JBool(TRUE))
           [] s[k] = 102 -> ParseLiteral(s, k, Lit_false, JBool(FALSE))
           [] s[k] \in {91, 45} -> PFail("unsupported")
           [] OTHER -> PFail("syntax")

\* The members of an object from k0 on, acc being those before; first: the
\* object's brace has just been read, so it may close at once.
ParseMembers(s, k0, acc, first) ==
    LET k == SkipWs(s, k0) IN
    IF k > Len(s) THEN PFail("more")
    ELSE IF first /\ s[k] = 125 THEN POk(JObj(acc), k + 1)
    ELSE IF s[k] # 34 THEN PFail("syntax")
    ELSE LET key == ParseString(s, k) IN
         IF key.st # "ok" THEN PFail(key.st)
         ELSE LET c == SkipWs(s, key.next) IN
              IF c > Len(s) THEN PFail("more")
              ELSE IF s[c] # 58 THEN PFail("syntax")
              ELSE LET val == ParseValue(s, c + 1) IN
                   IF val.st # "ok" THEN PFail(val.st)
                   ELSE LET d == SkipWs(s, val.next)
                            now == Append(acc, <<key.v.s, val.v>>)
                        IN IF d > Len(s) THEN PFail("more")
                           ELSE IF s[d] = 44 THEN ParseMembers(s, d + 1, now, FALSE)
                           ELSE IF s[d] = 125 THEN POk(JObj(now), d + 1)
                           ELSE PFail("syntax")

\* A decoder that takes the end of the input for the end of the value: no
\* error and an unchanged map where the input is cut short.
JsonDecodeIgnoringEOF(s, eof, before) ==
    LET r == ParseValue(s, 1)
        atEnd == ParseValue(Append(s, 32), 1)
        done == IF r.st = "more" /\ eof /\ atEnd.st = "ok" THEN atEnd ELSE r
        Res(e, m, u, b) == [err |-> e, info |-> m, used |-> u, blocks |-> b]
    IN CASE done.st = "ok" /\ done.v.t = "obj" -> Res("nil", done.v.m, done.next - 1, FALSE)
         [] done.st = "ok" /\ done.v.t = "null" -> Res("nil", <<>>, done.next - 1, FALSE)
         [] done.st = "ok" -> Res("UnmarshalTypeError", before, done.next - 1, FALSE)
         [] done.st = "more" /\ ~eof -> Res("nil", before, Len(s), TRUE)
         [] done.st = "more" -> Res("nil", before, Len(s), FALSE)
         [] done.st = "syntax" -> Res("SyntaxError", before, Len(s), FALSE)
         [] OTHER -> Res("unsupported", before, Len(s), FALSE)

\* json.Decoder.Decode(&info) on the bytes s the connection still yields,
\* eof telling whether the connection ends behind them (otherwise it stays
\* silent).  [err, info, used, blocks]: at the end of the input the scanner
\* is fed one space, which completes a number; a value cut short is
\* io.ErrUnexpectedEOF, no value at all io.EOF.  A JSON null sets the map
\* to nil (every lookup in it yields nil, as in an empty map); a value that
\* is no object is an UnmarshalTypeError and leaves the map as it was.
JsonDecode(s, eof, before) ==
    LET r == ParseValue(s, 1)
        atEnd == ParseValue(Append(s, 32), 1)
        done == IF r.st = "more" /\ eof /\ atEnd.st = "ok" THEN atEnd ELSE r
        Res(e, m, u, b) == [err |-> e, info |-> m, used |-> u, blocks |-> b]
    IN CASE done.st = "ok" /\ done.v.t = "obj" -> Res("nil", done.v.m, done.next - 1, FALSE)
         [] done.st = "ok" /\ done.v.t = "null" -> Res("nil", <<>>, done.next - 1, FALSE)
         [] done.st = "ok" -> Res("UnmarshalTypeError", before, done.next - 1, FALSE)
         [] done.st = "more" /\ ~eof -> Res("nil", before, Len(s), TRUE)
         [] done.st = "more" /\ SkipWs(s, 1) > Len(s) -> Res("EOF", before, Len(s), FALSE)
         [] done.st = "more" -> Res("unexpected EOF", before, Len(s), FALSE)
         [] done.st = "syntax" -> Res("SyntaxError", before, Len(s), FALSE)
         [] OTHER -> Res("unsupported", before, Len(s), FALSE)

-----------------------------------------------------------------------------
(* The field extraction of GetStatus.                                      *)

\* m[key] of a Go map decoded from an object: the last member with that
\* key, or nil.
Lookup(m, key) ==
    LET at == {j \in 1..Len(m) : m[j][1] = key} IN
    IF at = {} THEN JNil ELSE m[CHOOSE j \in at : \A l \in at : l <= j][2]

\* The dynamic type Go names in the panic of a failed type assertion.
GoType(v) ==
    CASE v.t = "obj" -> "map[string]interface {}"
      [] v.t = "str" -> "string"
      [] v.t = "num" -> "float64"
      [] v.t = "bool" -> "bool"
      [] OTHER -> "nil"

\* The value of the panic of v.(want):
\* "interface conversion: interface {} is <have>, not <want>".
ConversionPanic(v, want) == <<"interface conversion: interface {} is", GoType(v), "not", want>>

NilStat == <<>>
NoPanic == <<>>

\* A record with the two player counts in each other's place.
MinecraftStatusSwapped(pv, sv, motd, players, maxp) ==
    [ProtocolVersion |-> pv, ServerVersion |-> sv, Motd |-> motd,
     Players |-> maxp, MaxPlayers |-> players]

\* The record &MinecraftStatus{...} points to.
MinecraftStatus(pv, sv, motd, players, maxp) ==
    [ProtocolVersion |-> pv, ServerVersion |-> sv, Motd |-> motd,
     Players |-> players, MaxPlayers |-> maxp]

\* uint64(v.(float64)) of a decoded number: the conversion drops the
\* fraction.  (The numbers of the model are below 2^53: float64 holds them
\* exactly and uint64 can represent what is left.)
Uint64(v) == v.n

\* Lines 129-137: the type assertions in the order Go evaluates them.  The
\* first that fails panics and stat is never assigned; when none fails stat
\* points to the record.  [panic, stat].
ExtractSkippingMaxCheck(m) ==
    LET version == Lookup(m, Key_version)
        players == Lookup(m, Key_players)
        protocol == Lookup(version.m, Key_protocol)
        name == Lookup(version.m, Key_name)
        description == Lookup(m, Key_description)
        online == Lookup(players.m, Key_online)
        max == Lookup(players.m, Key_max)
        Panics(v, want) == [panic |-> ConversionPanic(v, want), stat |-> NilStat]
    IN IF version.t # "obj" THEN Panics(version, "map[string]interface {}")
       ELSE IF players.t # "obj" THEN Panics(players, "map[string]interface {}")
       ELSE IF protocol.t # "num" THEN Panics(protocol, "float64")
       ELSE IF name.t # "str" THEN Panics(name, "string")
       ELSE IF description.t # "str" THEN Panics(description, "string")
       ELSE IF online.t # "num" THEN Panics(online, "float64")
       ELSE [panic |-> NoPanic,
             stat |-> <<MinecraftStatus(Uint64(protocol), name.s, description.s,
                                        Uint64(online), Uint64(max))>>]
Extract(m) ==
    LET version == Lookup(m, Key_version)
        players == Lookup(m, Key_players)
        protocol == Lookup(version.m, Key_protocol)
        name == Lookup(version.m, Key_name)
        description == Lookup(m, Key_description)
        online == Lookup(players.m, Key_online)
        max == Lookup(players.m, Key_max)
        Panics(v, want) == [panic |-> ConversionPanic(v, want), stat |-> NilStat]
    IN IF version.t # "obj" THEN Panics(version, "map[string]interface {}")
       ELSE IF players.t # "obj" THEN Panics(players, "map[string]interface {}")
       ELSE IF protocol.t # "num" THEN Panics(protocol, "float64")
       ELSE IF name.t # "str" THEN Panics(name, "string")
       ELSE IF description.t # "str" THEN Panics(description, "string")
       ELSE IF online.t # "num" THEN Panics(online, "float64")
       ELSE IF max.t # "num" THEN Panics(max, "float64")
       ELSE [panic |-> NoPanic,
             stat |-> <<MinecraftStatus(Uint64(protocol), name.s, description.s,
                                        Uint64(online), Uint64(max))>>]

-----------------------------------------------------------------------------
(* What servers send.                                                      *)

FieldNames == {"protocol", "name", "description", "online", "max"}

\* The five values of the status the specification gives as its example.
GoodFields ==
    [protocol |-> JNum(5), name |-> JStr(Str_ServerVersion),
     description |-> JStr(Str_Motd), online |-> JNum(3), max |-> JNum(20)]

\* A value of a JSON type the field must not have; for description also
\* the object newer servers send, {"text": ...}.
WrongValues(k) ==
    CASE k \in {"protocol", "online", "max"} -> {JStr(Str_Five)}
      [] k = "name" -> {JNum(7)}
      [] OTHER -> {JNum(7), JObj(<< <<Key_text, JStr(Str_Motd)>> >>)}

\* The status object with the fields f, with or without a favicon.
DocOf(f, favicon) ==
    JObj(Members(<<
        <<Key_version, JObj(Members(<< <<Key_protocol, f.protocol>>, <<Key_name, f.name>> >>))>>,
        <<Key_description, f.description>>,
        <<Key_players, JObj(Members(<< <<Key_online, f.online>>, <<Key_max, f.max>> >>))>>,
        <<Key_favicon, IF favicon THEN JStr(Str_Favicon) ELSE JAbsent>> >>))

\* The complete status: 188 bytes of JSON with the favicon, 109 without.
GoodDoc == DocOf(GoodFields, TRUE)
ShortDoc == DocOf(GoodFields, FALSE)

\* A status with one field left out or of the wrong type.
BadFieldDocs ==
    {DocOf([GoodFields EXCEPT ![k] = b], TRUE) :
        <<k, b>> \in UNION {{<<k, b>> : b \in WrongValues(k) \cup {JAbsent}} : k \in FieldNames}}

\* A status without "version", and one whose "players" is a string.
NoVersionDoc ==
    JObj(<< <<Key_description, JStr(Str_Motd)>>,
            <<Key_players, JObj(<< <<Key_online, JNum(3)>>, <<Key_max, JNum(20)>> >>)>>,
            <<Key_favicon, JStr(Str_Favicon)>> >>)
PlayersStringDoc ==
    JObj(<< <<Key_version, JObj(<< <<Key_protocol, JNum(5)>>, <<Key_name, JStr(Str_ServerVersion)>> >>)>>,
            <<Key_description, JStr(Str_Motd)>>,
            <<Key_players, JStr(Str_Five)>>,
            <<Key_favicon, JStr(Str_Favicon)>> >>)

\* A complete status whose player count has a fraction: "online":3.5
FractionDoc == DocOf([GoodFields EXCEPT !.online = JFrac(3, <<53>>)], TRUE)

Docs == {GoodDoc, ShortDoc, FractionDoc, NoVersionDoc, PlayersStringDoc} \cup BadFieldDocs

\* JSON texts that are no object: null, a number, a string, a literal.
OtherDocs == {JNull, JNum(5), JStr(Str_Motd), JBool(TRUE)}

\* Where a server may stop sending a frame.
CutPoints(frame) == {0, 4, 5, Len(frame) \div 2, Len(frame) - 1}

\* What a server does: the bytes it sends and what it does behind them.
\* Every status in a Minecraft frame and the good ones in the
\* specification's frame, the connection closed behind it; the short
\* status and the texts that are no object in a frame with a padded length;
\* the number also with a server that stays silent; the good frame cut
\* short, closed or silent behind the cut.
Sends(bytes, mode) == [bytes |-> bytes, mode |-> mode]
Responses ==
    {Sends(StringFrame(Ser(d)), "close") : d \in Docs}
    \cup {Sends(SpecFrame(Ser(d)), "close") : d \in {GoodDoc, ShortDoc}}
    \cup {Sends(PaddedFrame(Ser(d)), "close") : d \in OtherDocs \cup {ShortDoc}}
    \cup {Sends(PaddedFrame(Ser(JNum(5))), "silent")}
    \cup {Sends(SubSeq(StringFrame(Ser(GoodDoc)), 1, c), mode) :
            c \in CutPoints(StringFrame(Ser(GoodDoc))), mode \in {"close", "silent"}}


-----------------------------------------------------------------------------
(* The service around GetStatus: main, the handler of "/jack/",            *)
(* StatusRespond and StatusReport.  A caller of GetStatus is main (the     *)
(* debug-mode check) or a request; calls[c] is the invocation caller c     *)
(* makes, conns the TCP connections ever opened, in the order of the       *)
(* DialTCP calls that opened them.                                         *)

Requests == 1..MaxRequests
Callers == {Main} \cup Requests

\* GetStatus not called; its locals netConn, stat and err, and the raddr
\* it handed to DialTCP.
IdleCall == [pc |-> "idle", netConn |-> 0, raddr |-> <<>>, stat |-> NilStat, err |-> "nil"]

\* What the handler wrote to its http.ResponseWriter: nothing yet.
NoReply == [code |-> 0, contentType |-> "", body |-> <<>>]

\* No request on this connection yet.
IdleRequest == [hpc |-> "idle", method |-> "", UserName |-> <<>>, Text |-> <<>>, reply |-> NoReply]

\* The process has started and main has not taken a step.
ServiceAtStart ==
    /\ mpc = "open"
    /\ Config = <<>>
    /\ MinecraftAddress = <<>>
    /\ calls = [c \in Callers |-> IdleCall]
    /\ conns = <<>>
    /\ reqs = [r \in Requests |-> IdleRequest]

service == <<mpc, Config, MinecraftAddress, calls, conns, reqs>>
invocation == <<host, port, resp, srvMode, pc, dials, conn, data, n, wbuf, werr, wire,
                rpos, i, info, err, stat, panicv>>

-----------------------------------------------------------------------------
(* GetStatus                                                               *)

\* GetStatus has been called and has not taken a step.
InvocationAtStart ==
    /\ pc = "dial"
    /\ conn = "none"
    /\ data = <<>>
    /\ n = 0
    /\ dials = 0
    /\ wbuf = <<>>
    /\ werr = "nil"
    /\ wire = <<>>
    /\ rpos = 0
    /\ i = 0
    /\ info = <<>>
    /\ err = "nil"
    /\ stat = NilStat
    /\ panicv = NoPanic

\* One invocation of GetStatus, by itself: main and the handlers stay as
\* they are.
Init ==
    /\ host \in Hosts
    /\ port \in Ports
    /\ \E r \in Responses : resp = r.bytes /\ srvMode = r.mode
    /\ InvocationAtStart
    /\ ServiceAtStart

config == <<host, port, resp, srvMode>>
writer == <<wbuf, werr, wire>>
reader == <<rpos, i, info>>

\* A return statement: the deferred Close runs once the connection is open.
Return ==
    /\ pc' = "returned"
    /\ conn' = DeferredClose(conn, "return")

\* binary.Write(conn, binary.BigEndian, p) and the if err != nil { return }
\* behind it; checked is FALSE for the write of line 62, which has none.
WriteThen(p, checked, next) ==
    LET r == BufioWrite(wbuf, werr, p) IN
    /\ wbuf' = r.buf
    /\ err' = r.err
    /\ IF checked /\ r.err # "nil" THEN Return ELSE pc' = next /\ conn' = conn
    /\ UNCHANGED <<config, service, dials, werr, wire, reader, stat, panicv>>

\* n = binary.PutUvarint(data, x), then the write of data[:n].
PutThenWrite(x, next) ==
    /\ data' = PutUvarint(data, x)
    /\ n' = Len(UvarintBytes(x))
    /\ WriteThen(DataPrefix(data', n'), TRUE, next)

\* Lines 49-56: net.DialTCP succeeds or fails.
Dial ==
    /\ pc = "dial"
    /\ dials' = dials + 1
    /\ \E ok \in BOOLEAN :
        IF ok THEN conn' = "open" /\ err' = "nil" /\ pc' = "lengthprefix"
        ELSE conn' = conn /\ err' = "dial error" /\ pc' = "returned"
    /\ UNCHANGED <<config, service, data, n, writer, reader, stat, panicv>>

\* Line 62.
WriteLengthPrefix ==
    /\ pc = "lengthprefix"
    /\ WriteThen(<<LenPrefixByte>>, FALSE, "packetid")
    /\ UNCHANGED <<data, n>>

\* Lines 64-68.
WritePacketId == pc = "packetid" /\ PutThenWrite(PacketId, "protocolversion")

\* Lines 71-75.
WriteProtocolVersion == pc = "protocolversion" /\ PutThenWrite(ProtocolVersion, "hostlength")

\* Lines 77-81.
WriteHostLength == pc = "hostlength" /\ PutThenWrite(Len(host), "host")

\* Lines 82-85.
WriteHost ==
    /\ pc = "host"
    /\ WriteThen(host, TRUE, "port")
    /\ UNCHANGED <<data, n>>

\* Lines 87-90.
WritePort ==
    /\ pc = "port"
    /\ WriteThen(PortBytes(port), TRUE, "nextstate")
    /\ UNCHANGED <<data, n>>

\* Lines 92-96.
WriteNextState == pc = "nextstate" /\ PutThenWrite(NextStateStatus, "requestlength")

\* Lines 98-101: data[:n] once more, as the length of the status request.
WriteRequestLength ==
    /\ pc = "requestlength"
    /\ WriteThen(DataPrefix(data, n), TRUE, "requestid")
    /\ UNCHANGED <<data, n>>

\* Lines 103-107.
WriteRequestId == pc = "requestid" /\ PutThenWrite(PacketId, "flush")

\* How many bytes netConn.Write may accept of buf: all of them, or, when it
\* fails, none or one.
FlushOutcomes(buf) == {k \in {0, 1, Len(buf)} : k <= Len(buf)}

\* Line 109: conn.Flush().  bufio.Writer.Flush hands the buffer to
\* netConn.Write; when that accepts only k bytes the rest stays buffered
\* and the error becomes the writer's sticky error.  The error Flush
\* returns is not assigned to anything.
Flush ==
    /\ pc = "flush"
    /\ IF werr # "nil" \/ Len(wbuf) = 0 THEN UNCHANGED writer
       ELSE \E k \in FlushOutcomes(wbuf) :
            /\ wire' = wire \o SubSeq(wbuf, 1, k)
            /\ wbuf' = SubSeq(wbuf, k + 1, Len(wbuf))
            /\ werr' = IF k < Len(wbuf) THEN "write error" ELSE "nil"
    /\ pc' = "discard"
    /\ UNCHANGED <<config, service, dials, conn, data, n, reader, err, stat, panicv>>

\* Lines 115-120: one round of the discard loop.  conn.ReadByte() yields the
\* next byte the server sent; behind the last one it yields io.EOF when the
\* server closed, and does not return while the server stays silent.
DiscardByte ==
    /\ pc = "discard"
    /\ rpos < Len(resp) \/ srvMode = "close"
    /\ IF rpos < Len(resp)
       THEN /\ rpos' = rpos + 1
            /\ i' = i + 1
            /\ err' = "nil"
            /\ pc' = IF i + 1 < DiscardCount THEN "discard" ELSE "decode"
            /\ conn' = conn
       ELSE /\ err' = "EOF"
            /\ Return
            /\ UNCHANGED <<rpos, i>>
    /\ UNCHANGED <<config, service, dials, data, n, writer, info, stat, panicv>>

\* What json.NewDecoder(conn) reads: the bytes the server sent that the
\* discard loop left.
DecoderInput == SubSeq(resp, rpos + 1, Len(resp))

\* Lines 122-126.
Decode ==
    /\ pc = "decode"
    /\ LET r == JsonDecode(DecoderInput, srvMode = "close", info) IN
        /\ ~r.blocks
        /\ info' = r.info
        /\ rpos' = rpos + r.used
        /\ err' = r.err
        /\ IF r.err # "nil" THEN Return ELSE pc' = "extract" /\ conn' = conn
    /\ UNCHANGED <<config, service, dials, data, n, writer, i, stat, panicv>>

\* Lines 129-138.  A panic unwinds GetStatus: the deferred Close runs and
\* nothing is returned.
ExtractStatus ==
    /\ pc = "extract"
    /\ LET r == Extract(info) IN
        IF r.panic # NoPanic
        THEN /\ panicv' = r.panic
             /\ pc' = "panicked"
             /\ conn' = DeferredClose(conn, "panic")
             /\ stat' = stat
        ELSE /\ stat' = r.stat
             /\ Return
             /\ panicv' = panicv
    /\ UNCHANGED <<config, service, dials, data, n, writer, reader, err>>

Next ==
    \/ Dial
    \/ WriteLengthPrefix
    \/ WritePacketId
    \/ WriteProtocolVersion
    \/ WriteHostLength
    \/ WriteHost
    \/ WritePort
    \/ WriteNextState
    \/ WriteRequestLength
    \/ WriteRequestId
    \/ Flush
    \/ DiscardByte
    \/ Decode
    \/ ExtractStatus

Spec == Init /\ [][Next]_vars

-----------------------------------------------------------------------------
(* strings, fmt, encoding/json.Marshal and net/http, as the service uses   *)
(* them.  The texts of the model are ASCII but for the two quotation marks *)
(* of the format string of line 156.                                       *)

\* strings.ToLower
ToLower(s) == [k \in 1..Len(s) |-> IF s[k] \in 65..90 THEN s[k] + 32 ELSE s[k]]

\* strings.TrimPrefix
TrimPrefix(s, p) ==
    IF Len(p) <= Len(s) /\ SubSeq(s, 1, Len(p)) = p THEN SubSeq(s, Len(p) + 1, Len(s)) ELSE s

\* The white space strings.TrimSpace cuts off both ends.
Space == {9, 10, 11, 12, 13, 32}

\* strings.TrimSpace
TrimSpace(s) ==
    LET first == FirstIn(s, 1, (0..255) \ Space)
        last == CHOOSE j \in 0..Len(s) :
                    /\ j = 0 \/ s[j] \notin Space
                    /\ \A l \in (j + 1)..Len(s) : s[l] \in Space
    IN SubSeq(s, first, last)

\* "status"
Str_status == <<115, 116, 97, 116, 117, 115>>
\* "Oops: "
Str_Oops == <<79, 111, 112, 115, 58, 32>>
\* ": "
Str_Colon == <<58, 32>>
\* "*"
Str_Star == <<42>>
\* "* has *"
Str_HasStar == <<42, 32, 104, 97, 115, 32, 42>>
\* "*/"
Str_StarSlash == <<42, 47>>
\* " players on."
Str_PlayersOn == <<32, 112, 108, 97, 121, 101, 114, 115, 32, 111, 110, 46>>
\* "The term " and the opening quotation mark U+201C, in UTF-8
Str_TheTerm == <<84, 104, 101, 32, 116, 101, 114, 109, 32, 226, 128, 156>>
\* the closing quotation mark U+201D, in UTF-8, and " is not a known command."
Str_NotKnown == <<226, 128, 157, 32, 105, 115, 32, 110, 111, 116, 32, 97, 32, 107, 110, 111, 119, 110, 32, 99, 111, 109, 109, 97, 110, 100, 46>>
\* "{"text":"
Str_TextOpen == <<123, 34, 116, 101, 120, 116, 34, 58>>
\* "}"
Str_TextClose == <<125>>

\* Line 147: fmt.Sprintf("*%s* has *%d*/%d players on.", ...)
ReportText(s) ==
    Str_Star \o s.Motd \o Str_HasStar \o DigitsOf(s.Players) \o Str_StarSlash
    \o DigitsOf(s.MaxPlayers) \o Str_PlayersOn

\* Line 156: fmt.Sprintf of msg.Text between "The term " with the opening
\* quotation mark and the closing one with " is not a known command."
UnknownText(text) == Str_TheTerm \o text \o Str_NotKnown

\* Line 160: fmt.Sprintf("%s: %s", msg.UserName, text)
WithUserName(user, text) == user \o Str_Colon \o text

\* Line 210: fmt.Sprintf("Oops: %s", err.Error())
OopsText(msg) == Str_Oops \o msg

\* The lower-case hexadecimal digit of d.
HexDigit(d) == IF d < 10 THEN 48 + d ELSE 87 + d

\* How json.Marshal writes one byte of a string: a backslash before the
\* quote and the backslash, \n \r \t, and \u00XX for the other control
\* characters and for < > &.
Escape(c) ==
    CASE c \in {34, 92} -> <<92, c>>
      [] c = 10 -> <<92, 110>>
      [] c = 13 -> <<92, 114>>
      [] c = 9 -> <<92, 116>>
      [] c < 32 \/ c \in {38, 60, 62} -> <<92, 117, 48, 48, HexDigit(c \div 16), HexDigit(c % 16)>>
      [] OTHER -> <<c>>

RECURSIVE EscapedString(_)
EscapedString(s) == IF s = <<>> THEN <<>> ELSE Escape(Head(s)) \o EscapedString(Tail(s))

\* Lines 213-216: json.Marshal(&SlackResponse{Text: text})
MarshalSlackResponse(text) ==
    Str_TextOpen \o <<34>> \o EscapedString(text) \o <<34>> \o Str_TextClose

\* Lines 222-223: the Content-Type set, the JSON written; status 200.
JsonReply(json) == [code |-> 200, contentType |-> "text/json", body |-> json]

\* Line 190: fmt.Fprintf(w, "%s", text), the headers left to net/http.
PlainReply(text) == [code |-> 200, contentType |-> "", body |-> text]

\* http.Error(w, msg, code): the message and a line feed, as plain text.
HttpError(msg, code) ==
    [code |-> code, contentType |-> "text/plain; charset=utf-8", body |-> msg \o <<10>>]

\* "EOF"
Msg_EOF == <<69, 79, 70>>
\* "unexpected EOF"
Msg_UnexpectedEOF == <<117, 110, 101, 120, 112, 101, 99, 116, 101, 100, 32, 69, 79, 70>>
\* "invalid character 'v' looking for beginning of value"
Msg_Syntax == <<105, 110, 118, 97, 108, 105, 100, 32, 99, 104, 97, 114, 97, 99, 116, 101, 114, 32, 39, 118, 39, 32, 108, 111, 111, 107, 105, 110, 103, 32, 102, 111, 114, 32, 98, 101, 103, 105, 110, 110, 105, 110, 103, 32, 111, 102, 32, 118, 97, 108, 117, 101>>
\* "json: cannot unmarshal number into Go value of type map[string]interface {}"
Msg_Type == <<106, 115, 111, 110, 58, 32, 99, 97, 110, 110, 111, 116, 32, 117, 110, 109, 97, 114, 115, 104, 97, 108, 32, 110, 117, 109, 98, 101, 114, 32, 105, 110, 116, 111, 32, 71, 111, 32, 118, 97, 108, 117, 101, 32, 111, 102, 32, 116, 121, 112, 101, 32, 109, 97, 112, 91, 115, 116, 114, 105, 110, 103, 93, 105, 110, 116, 101, 114, 102, 97, 99, 101, 32, 123, 125>>
\* "dial tcp 127.0.0.1:25565: connection refused"
Msg_Dial == <<100, 105, 97, 108, 32, 116, 99, 112, 32, 49, 50, 55, 46, 48, 46, 48, 46, 49, 58, 50, 53, 53, 54, 53, 58, 32, 99, 111, 110, 110, 101, 99, 116, 105, 111, 110, 32, 114, 101, 102, 117, 115, 101, 100>>
\* "dial tcp: missing address"
Msg_MissingAddress == <<100, 105, 97, 108, 32, 116, 99, 112, 58, 32, 109, 105, 115, 115, 105, 110, 103, 32, 97, 100, 100, 114, 101, 115, 115>>

\* err.Error() of the errors of the model.  The text of a syntax error, of a
\* type error and of a failed dial varies with the input; one text stands
\* for each.
ErrorText(e) ==
    CASE e = "EOF" -> Msg_EOF
      [] e = "unexpected EOF" -> Msg_UnexpectedEOF
      [] e = "SyntaxError" -> Msg_Syntax
      [] e = "UnmarshalTypeError" -> Msg_Type
      [] e = "missing address" -> Msg_MissingAddress
      [] OTHER -> Msg_Dial

-----------------------------------------------------------------------------
(* What the requests carry.                                                *)

\* "steve"
Str_Steve == <<115, 116, 101, 118, 101>>
\* "jack"
Str_Trigger == <<106, 97, 99, 107>>
\* "jack status"
Form_Status == <<106, 97, 99, 107, 32, 115, 116, 97, 116, 117, 115>>
\* "jack STATUS "
Form_Upper == <<106, 97, 99, 107, 32, 83, 84, 65, 84, 85, 83, 32>>
\* "jack statuses"
Form_Statuses == <<106, 97, 99, 107, 32, 115, 116, 97, 116, 117, 115, 101, 115>>
\* "help <now>"
Form_Help == <<104, 101, 108, 112, 32, 60, 110, 111, 119, 62>>

\* The form values trigger_word and text of a POST: the command behind the
\* trigger word, in two spellings, and a text that starts with it; a text
\* without trigger word that is no command.
PostForm(trigger, text) == [trigger_word |-> trigger, text |-> text]
PostForms ==
    {PostForm(Str_Trigger, t) : t \in {Form_Status, Form_Upper, Form_Statuses}}
    \cup {PostForm(<<>>, Form_Help)}

Methods == {"GET", "POST"}

\* What net.ResolveTCPAddr resolves the configured host and port to.
Addresses == {"127.0.0.1:25565"}

-----------------------------------------------------------------------------
(* GetStatus as its callers see it: the dial, the writes and the flush,    *)
(* the reads with the decoding and the extraction, each one step.          *)

\* What lines 112-138 come to when the server behaves as (bytes, mode):
\* the discard loop, the decoding and the extraction, as the steps
\* DiscardByte, Decode and ExtractStatus take them one after the other.
\* [pc, err, stat]: GetStatus "returned", "panicked" or stays "blocked" in
\* a read.
Outcome(how, e, s) == [pc |-> how, err |-> e, stat |-> s]
ReadOutcomeRecovering(bytes, mode) ==
    LET d == JsonDecode(SubSeq(bytes, DiscardCount + 1, Len(bytes)), mode = "close", <<>>)
        x == Extract(d.info)
    IN IF Len(bytes) < DiscardCount
       THEN IF mode = "close" THEN Outcome("returned", "EOF", NilStat)
            ELSE Outcome("blocked", "nil", NilStat)
       ELSE IF d.blocks THEN Outcome("blocked", "nil", NilStat)
       ELSE IF d.err # "nil" THEN Outcome("returned", d.err, NilStat)
       ELSE Outcome("returned", "nil", x.stat)
ReadOutcome(bytes, mode) ==
    LET d == JsonDecode(SubSeq(bytes, DiscardCount + 1, Len(bytes)), mode = "close", <<>>)
        x == Extract(d.info)
    IN IF Len(bytes) < DiscardCount
       THEN IF mode = "close" THEN Outcome("returned", "EOF", NilStat)
            ELSE Outcome("blocked", "nil", NilStat)
       ELSE IF d.blocks THEN Outcome("blocked", "nil", NilStat)
       ELSE IF d.err # "nil" THEN Outcome("returned", d.err, NilStat)
       ELSE IF x.panic # NoPanic THEN Outcome("panicked", "nil", NilStat)
       ELSE Outcome("returned", "nil", x.stat)

\* The outcomes of the servers of the model.
Outcomes == {ReadOutcome(r.bytes, r.mode) : r \in Responses}

\* A pool of one connection: every dial but the first hands out the
\* connection the first opened.
DialPooled(cs, c) ==
    IF cs = <<>> THEN [conns |-> <<[state |-> "open", users |-> {c}]>>, id |-> 1]
    ELSE [conns |-> [cs EXCEPT ![1].users = @ \cup {c}], id |-> 1]
\* Line 50: net.DialTCP succeeds: a new connection, behind those there are.
DialTCP(cs, c) ==
    [conns |-> Append(cs, [state |-> "open", users |-> {c}]), id |-> Len(cs) + 1]

\* Lines 49-54: DialTCP with the global MinecraftAddress.  A nil address is
\* refused without a connection attempt.
CallDial(c) ==
    /\ calls[c].pc = "dial"
    /\ \E ok \in BOOLEAN :
        IF ok /\ MinecraftAddress # <<>>
        THEN /\ conns' = DialTCP(conns, c).conns
             /\ calls' = [calls EXCEPT ![c].pc = "write", ![c].raddr = MinecraftAddress,
                                       ![c].netConn = DialTCP(conns, c).id]
        ELSE /\ conns' = conns
             /\ calls' = [calls EXCEPT ![c].pc = "returned", ![c].raddr = MinecraftAddress,
                                       ![c].err = IF MinecraftAddress = <<>>
                                                  THEN "missing address" ELSE "dial error"]
    /\ UNCHANGED <<mpc, Config, MinecraftAddress, reqs, invocation>>

\* Lines 56-109: the writes go into the bufio buffer (WritesFit: none of
\* them fails) and the flush hands it to netConn; what the flush returns is
\* dropped.
CallWrite(c) ==
    /\ calls[c].pc = "write"
    /\ conns' = [conns EXCEPT ![calls[c].netConn].users = @ \cup {c}]
    /\ calls' = [calls EXCEPT ![c].pc = "read"]
    /\ UNCHANGED <<mpc, Config, MinecraftAddress, reqs, invocation>>

\* Lines 112-138 and the deferred Close of line 54, which runs on a return
\* and on a panic; a read that blocks leaves the connection open.
CallRead(c) ==
    /\ calls[c].pc = "read"
    /\ \E o \in Outcomes :
        /\ calls' = [calls EXCEPT ![c].pc = o.pc, ![c].err = o.err, ![c].stat = o.stat]
        /\ conns' = [conns EXCEPT ![calls[c].netConn].users = @ \cup {c},
                                  ![calls[c].netConn].state =
                                      IF o.pc = "blocked" THEN @ ELSE "closed"]
    /\ UNCHANGED <<mpc, Config, MinecraftAddress, reqs, invocation>>

-----------------------------------------------------------------------------
(* StatusRespond, StatusReport and the handler                             *)

\* Lines 152-153: the switch of StatusRespond takes the case "status".
StartsWithStatus(text) ==
    Len(text) >= Len(Str_status) /\ SubSeq(ToLower(text), 1, Len(Str_status)) = Str_status
IsStatusCommand(text) == ToLower(text) = Str_status

\* Lines 141-149: StatusReport behind the return of GetStatus as g.
\* [text, err, panic]: stat.Motd of a nil stat is a nil dereference.
StatusReport(g) ==
    IF g.err # "nil" THEN [text |-> <<>>, err |-> g.err, panic |-> FALSE]
    ELSE IF g.stat = NilStat THEN [text |-> <<>>, err |-> "nil", panic |-> TRUE]
    ELSE [text |-> ReportText(g.stat[1]), err |-> "nil", panic |-> FALSE]

\* Lines 159-161: StatusRespond puts the user name before the text when err
\* is nil.
StatusRespondText(user, text, e) == IF e = "nil" THEN WithUserName(user, text) ELSE text

\* A handler that sends the text as it got it.
HandlerTextAsReturned(ret, e) == ret
\* Lines 208-211: the handler puts the error behind "Oops: ".
HandlerText(ret, e) == IF e # "nil" THEN OopsText(ErrorText(e)) ELSE ret

\* Lines 184-208: net/http calls the handler with a request.  A GET calls
\* StatusReport, which calls GetStatus; any other method builds the message
\* and calls StatusRespond, which calls StatusReport for the command
\* "status" and has the handler reply at once for every other text.
Serve(r) ==
    /\ mpc = "serving"
    /\ reqs[r].hpc = "idle"
    /\ \E m \in Methods, f \in PostForms :
        LET text == TrimSpace(TrimPrefix(f.text, f.trigger_word))
            msg == [IdleRequest EXCEPT !.method = m, !.UserName = Str_Steve, !.Text = text]
        IN IF m = "GET"
           THEN /\ reqs' = [reqs EXCEPT ![r] = [IdleRequest EXCEPT !.method = m, !.hpc = "report"]]
                /\ calls' = [calls EXCEPT ![r].pc = "dial"]
           ELSE IF IsStatusCommand(text)
           THEN /\ reqs' = [reqs EXCEPT ![r] = [msg EXCEPT !.hpc = "report"]]
                /\ calls' = [calls EXCEPT ![r].pc = "dial"]
           ELSE /\ reqs' = [reqs EXCEPT ![r] =
                        [msg EXCEPT !.hpc = "replied",
                                    !.reply = JsonReply(MarshalSlackResponse(
                                        HandlerText(StatusRespondText(msg.UserName,
                                                        UnknownText(text), "nil"), "nil")))]]
                /\ calls' = calls
    /\ UNCHANGED <<mpc, Config, MinecraftAddress, conns, invocation>>

\* GetStatus has ended and the handler runs to its end: lines 145-148 of
\* StatusReport, then lines 186-192 for a GET, lines 159-163 of
\* StatusRespond and lines 209-223 for every other method.  A panic of
\* GetStatus, or one of StatusReport, ends the handler without a reply.
Reply(r) ==
    /\ reqs[r].hpc = "report"
    /\ calls[r].pc \in {"returned", "panicked"}
    /\ LET rep == StatusReport(calls[r])
           ret == StatusRespondText(reqs[r].UserName, rep.text, rep.err)
       IN reqs' = [reqs EXCEPT ![r] =
            IF calls[r].pc = "panicked" THEN [@ EXCEPT !.hpc = "aborted"]
            ELSE IF rep.panic THEN [@ EXCEPT !.hpc = "nil dereference"]
            ELSE IF @.method = "GET"
            THEN [@ EXCEPT !.hpc = "replied",
                           !.reply = IF rep.err # "nil" THEN HttpError(ErrorText(rep.err), 500)
                                     ELSE PlainReply(rep.text)]
            ELSE [@ EXCEPT !.hpc = "replied",
                           !.reply = JsonReply(MarshalSlackResponse(HandlerText(ret, rep.err)))]]
    /\ UNCHANGED <<mpc, Config, MinecraftAddress, calls, conns, invocation>>

-----------------------------------------------------------------------------
(* main                                                                    *)

\* Lines 172-176: os.Open of the configuration file.
OpenConfig ==
    /\ mpc = "open"
    /\ \E ok \in BOOLEAN : mpc' = IF ok THEN "decode" ELSE "exited"
    /\ UNCHANGED <<Config, MinecraftAddress, calls, conns, reqs, invocation>>

\* Lines 177-182: the configuration is decoded into the global Config, or
\* main returns.
DecodeConfig ==
    /\ mpc = "decode"
    /\ \/ \E debug \in BOOLEAN : Config' = <<[Debug |-> debug]>> /\ mpc' = "handlefunc"
       \/ Config' = Config /\ mpc' = "exited"
    /\ UNCHANGED <<MinecraftAddress, calls, conns, reqs, invocation>>

\* Lines 184-224: http.HandleFunc registers the handler; no request is
\* accepted yet.
HandleFunc ==
    /\ mpc = "handlefunc"
    /\ mpc' = "resolve"
    /\ UNCHANGED <<Config, MinecraftAddress, calls, conns, reqs, invocation>>

\* A main that goes on to serve when the address does not resolve.
ListenAfterResolveError == "listen"
\* Lines 228-231: main returns when the address does not resolve.
AfterResolveError == "exited"

\* Lines 226-231: net.ResolveTCPAddr assigns the global MinecraftAddress, a
\* nil pointer when it fails.
ResolveAddress ==
    /\ mpc = "resolve"
    /\ \/ \E a \in Addresses :
            /\ MinecraftAddress' = <<a>>
            /\ mpc' = IF Config[1].Debug THEN "debug" ELSE "listen"
       \/ MinecraftAddress' = <<>> /\ mpc' = AfterResolveError
    /\ UNCHANGED <<Config, calls, conns, reqs, invocation>>

\* Line 235: in debug mode main calls GetStatus.
DebugCall ==
    /\ mpc = "debug"
    /\ mpc' = "debugcheck"
    /\ calls' = [calls EXCEPT ![Main].pc = "dial"]
    /\ UNCHANGED <<Config, MinecraftAddress, conns, reqs, invocation>>

\* Lines 236-240: an error makes main return; without one main logs
\* stat.Motd, a nil dereference when stat is nil.  A panic of GetStatus
\* ends the process.
DebugReturn ==
    /\ mpc = "debugcheck"
    /\ calls[Main].pc \in {"returned", "panicked"}
    /\ mpc' = IF calls[Main].pc = "panicked" THEN "crashed"
              ELSE IF calls[Main].err # "nil" THEN "exited"
              ELSE IF calls[Main].stat = NilStat THEN "nil dereference"
              ELSE "listen"
    /\ UNCHANGED <<Config, MinecraftAddress, calls, conns, reqs, invocation>>

\* Line 243: http.ListenAndServe listens and serves from then on, or fails
\* to listen and main returns.
ListenAndServe ==
    /\ mpc = "listen"
    /\ \E ok \in BOOLEAN : mpc' = IF ok THEN "serving" ELSE "exited"
    /\ UNCHANGED <<Config, MinecraftAddress, calls, conns, reqs, invocation>>

\* The process with its server: main, then the requests net/http serves
\* concurrently, each in a goroutine of its own.
ServeInit ==
    /\ host = Host_localhost
    /\ port = 25565
    /\ resp = <<>>
    /\ srvMode = "close"
    /\ InvocationAtStart
    /\ ServiceAtStart

ServeNext ==
    \/ OpenConfig
    \/ DecodeConfig
    \/ HandleFunc
    \/ ResolveAddress
    \/ DebugCall
    \/ DebugReturn
    \/ ListenAndServe
    \/ \E r \in Requests : Serve(r)
    \/ \E c \in Callers : CallDial(c)
    \/ \E c \in Callers : CallWrite(c)
    \/ \E c \in Callers : CallRead(c)
    \/ \E r \in Requests : Reply(r)

ServeSpec == ServeInit /\ [][ServeNext]_vars

-----------------------------------------------------------------------------
(* Checks of the model itself.                                             *)

TypeOK ==
    /\ pc \in {"dial", "lengthprefix", "packetid", "protocolversion", "hostlength",
               "host", "port", "nextstate", "requestlength", "requestid", "flush",
               "discard", "decode", "extract", "returned", "panicked"}
    /\ conn \in {"none", "open", "closed"}
    /\ \A k \in 1..Len(wire) : wire[k] \in 0..255
    /\ \A k \in 1..Len(wbuf) : wbuf[k] \in 0..255
    /\ Len(data) <= DataLen
    /\ Len(stat) <= 1

\* No write of the model overflows the bufio buffer.
WritesFit == Len(wbuf) + Len(host) + 2 <= BufSize

\* No input of the model leaves the JSON the decoder is modelled for.
SupportedJson == err # "unsupported"

\* The state of main, of the calls, the connections and the handlers.
ServeTypeOK ==
    /\ mpc \in {"open", "decode", "handlefunc", "resolve", "debug", "debugcheck", "listen",
                 "serving", "exited", "crashed", "nil dereference"}
    /\ Len(Config) <= 1 /\ Len(MinecraftAddress) <= 1
    /\ \A c \in Callers :
        /\ calls[c].pc \in {"idle", "dial", "write", "read", "returned", "panicked", "blocked"}
        /\ calls[c].netConn \in 0..Len(conns)
    /\ \A k \in 1..Len(conns) : conns[k].state \in {"open", "closed"}
    /\ \A r \in Requests :
        /\ reqs[r].hpc \in {"idle", "report", "replied", "aborted", "nil dereference"}
        /\ reqs[r].reply.code \in {0, 200, 500}

-----------------------------------------------------------------------------
(* What the specification says of the wire format, in its own terms.       *)

\* VarInt(x) for x < 2^14: 7 bits a byte, low group first, the high bit set
\* on every byte but the last.
VarInt(x) == IF x < 128 THEN <<x>> ELSE <<128 + (x % 128), x \div 128>>

\* The handshake behind its length prefix: packet id 0, protocol version 5,
\* the host behind its length, the port big-endian, next state 1.
HandshakePacket(h, p) ==
    VarInt(0) \o VarInt(5) \o VarInt(Len(h)) \o h \o <<p \div 256, p % 256>> \o VarInt(1)

\* The status request: length 1, packet id 0.
StatusRequest == <<1, 0>>

\* Every byte GetStatus has written so far, in order: those netConn took
\* and those still in the bufio buffer.
Written == wire \o wbuf

\* p is how s starts.
IsPrefix(p, s) == Len(p) <= Len(s) /\ SubSeq(s, 1, Len(p)) = p

\* GetStatus has made the last write of the handshake; of both packets.
\* (A return with "dial error" or "write error" has not.)
HandshakeWritten ==
    pc \in {"requestlength", "requestid", "flush", "discard", "decode", "extract", "panicked"}
RequestWritten ==
    \/ pc \in {"flush", "discard", "decode", "extract", "panicked"}
    \/ pc = "returned" /\ err \notin {"dial error", "write error"}

\* GetStatus has ended: it returned or it panicked.
Ended == pc \in {"returned", "panicked"}

\* The one step CallRead takes for the reads comes to what the steps of
\* GetStatus come to: once GetStatus has ended with its connection closed
\* it has returned or panicked as ReadOutcome says, and a GetStatus that
\* ReadOutcome leaves blocked never ends.
OutcomeAgrees ==
    (Ended /\ conn = "closed") => ReadOutcome(resp, srvMode) = Outcome(pc, err, stat)

\* The VarInt at index k of s: its width (the bytes up to the first whose
\* high bit is clear) and its value.
VarIntWidth(s, k) == FirstIn(s, k, 0..127) - k + 1
VarIntValue(s, k) ==
    LET w == VarIntWidth(s, k)
        Group(j) == (s[k + j] % 128) * (128 ^ j)
        Sum[j \in 0..w] == IF j = 0 THEN 0 ELSE Sum[j - 1] + Group(j - 1)
    IN Sum[w]

\* s is one whole frame VarInt(length) ++ VarInt(packetId) ++ payload.
IsWholeFrame(s) ==
    /\ VarIntWidth(s, 1) <= Len(s)
    /\ VarIntValue(s, 1) >= 1
    /\ Len(s) = VarIntWidth(s, 1) + VarIntValue(s, 1)
    /\ VarIntWidth(s, 1) + VarIntWidth(s, VarIntWidth(s, 1) + 1) <= Len(s)

\* Its header, the two VarInts, and its payload, the rest.
HeaderWidth(s) == VarIntWidth(s, 1) + VarIntWidth(s, VarIntWidth(s, 1) + 1)
Payload(s) == SubSeq(s, HeaderWidth(s) + 1, Len(s))

\* The decoded payload m holds the five fields with their JSON types.
Complete(m) ==
    /\ Lookup(m, Key_version).t = "obj"
    /\ Lookup(Lookup(m, Key_version).m, Key_protocol).t = "num"
    /\ Lookup(Lookup(m, Key_version).m, Key_name).t = "str"
    /\ Lookup(m, Key_description).t = "str"
    /\ Lookup(m, Key_players).t = "obj"
    /\ Lookup(Lookup(m, Key_players).m, Key_online).t = "num"
    /\ Lookup(Lookup(m, Key_players).m, Key_max).t = "num"

-----------------------------------------------------------------------------
(* The claims.                                                             *)

\* C1: no byte is read from the connection before the handshake packet and
\* then the status-request packet have been written and flushed to it: once
\* a byte has been read, nothing is left in the write buffer and the
\* connection has taken the handshake followed by the status request.
C1_NoReadBeforeFlushed ==
    rpos > 0 =>
        /\ Len(wbuf) = 0
        /\ Len(wire) = 1 + Len(HandshakePacket(host, port)) + 2
        /\ SubSeq(wire, 2, Len(wire) - 2) = HandshakePacket(host, port)
        /\ SubSeq(wire, Len(wire) - 1, Len(wire)) = StatusRequest

\* C2: once GetStatus has opened the connection, the connection is closed
\* on every exit path: when GetStatus has ended, by a return or by a panic,
\* its connection is not open; and it is closed at no other time.
C2_ClosedOnEveryExit ==
    /\ Ended => conn # "open"
    /\ conn = "closed" => Ended

\* C2's case: GetStatus panicked in the field extraction with the
\* connection it had opened closed.
C2_Witness == pc = "panicked" /\ conn = "closed"

\* C3: when the server accepts the connection and never sends a byte,
\* GetStatus does not block forever, it returns (a timeout error) and
\* releases the connection: while it has not ended it can take a step.
C3_SilentServerNeverBlocks ==
    (conn = "open" /\ srvMode = "silent" /\ Len(resp) = 0) => (Ended \/ ENABLED Next)

\* C4: the first value GetStatus writes is the VarInt of the number of
\* bytes of packet id and handshake payload behind it,
\* 1 + 1 + len(VarInt(len(host))) + len(host) + 2 + 1.
C4_LengthPrefixCountsPacket ==
    HandshakeWritten =>
        IsPrefix(VarInt(1 + 1 + Len(VarInt(Len(host))) + Len(host) + 2 + 1), Written)

\* C5: the bytes written behind the length prefix are packet id VarInt(0),
\* VarInt(5), VarInt(len(host)), the host, the port in 2 bytes big-endian
\* and VarInt(1), in this order and with nothing in between.
C5_HandshakeBytes ==
    HandshakeWritten =>
        /\ Len(Written) >= 1 + Len(HandshakePacket(host, port))
        /\ SubSeq(Written, 2, 1 + Len(HandshakePacket(host, port))) = HandshakePacket(host, port)

\* C5's case: the handshake of a host whose length takes a VarInt of two
\* bytes, and a port with two non-zero bytes, has been written.
C5_Witness == pc = "flush" /\ Len(host) >= 128 /\ port = 25565

\* C6: right behind the handshake GetStatus writes the two bytes length 1,
\* packet id 0, and it writes nothing else, before the flush or after it.
C6_StatusRequestBytes ==
    RequestWritten =>
        /\ Len(Written) = 1 + Len(HandshakePacket(host, port)) + 2
        /\ SubSeq(Written, Len(Written) - 1, Len(Written)) = StatusRequest

\* C6's case: GetStatus has flushed, read the response and returned.
C6_Witness == pc = "returned" /\ rpos > DiscardCount /\ Len(wbuf) = 0

\* C7: of every response frame VarInt(length) ++ VarInt(packetId) ++
\* payload GetStatus consumes exactly the two VarInts as header and hands
\* the JSON decoder exactly the payload.
C7_HeaderIsTheTwoVarInts ==
    (pc = "decode" /\ IsWholeFrame(resp)) =>
        /\ rpos = HeaderWidth(resp)
        /\ DecoderInput = Payload(resp)

\* C8: a failure of a write or of the flush makes GetStatus return a
\* non-nil error; after one it never reads a response, and never returns a
\* nil error.
C8_WriteFailureReturned ==
    werr # "nil" =>
        /\ rpos = 0
        /\ pc = "returned" => err # "nil"

\* C9: when the decoded payload lacks one of the five fields or holds one
\* with the wrong JSON type, GetStatus returns an error to its caller.
C9_BadPayloadReturnsError ==
    (Ended /\ ~Complete(info)) => (pc = "returned" /\ err # "nil")

\* C10: a MinecraftStatus is only ever built and returned from a payload
\* that holds all five fields with their JSON types: whenever stat is not
\* nil the decoded payload is complete, and stat holds its five values.
C10_StatusOnlyFromCompletePayload ==
    stat # NilStat =>
        /\ Complete(info)
        /\ pc = "returned" /\ err = "nil"
        /\ stat[1].MaxPlayers = Lookup(Lookup(info, Key_players).m, Key_max).n

\* C10's case: GetStatus returned a status.
C10_Witness == pc = "returned" /\ stat # NilStat /\ Complete(info)

\* C12: GetStatus never retries: it calls DialTCP at most once and writes
\* the handshake and the status request at most once, and the first failure
\* of the connect, of a write, of a read or of the decoding ends it, the
\* failure returned and no status with it.
C12_NoRetryFirstFailureEnds ==
    /\ dials <= 1
    /\ Len(Written) <= 1 + Len(HandshakePacket(host, port)) + 2
    /\ (err # "nil" \/ werr # "nil") => (pc = "returned" /\ err # "nil" /\ stat = NilStat)

\* The bytes the server sent hold the DiscardCount header bytes and, behind
\* them, one whole JSON value.
SentHeaderAndValue ==
    /\ Len(resp) >= DiscardCount
    /\ ParseValue(Append(SubSeq(resp, DiscardCount + 1, Len(resp)), 32), 1).st = "ok"

\* C14: when the server closes the connection GetStatus opened before it
\* has sent the discarded header bytes and one whole JSON value, GetStatus
\* returns a non-nil error and no status.
C14_EarlyCloseReturnsError ==
    (Ended /\ conn = "closed" /\ srvMode = "close" /\ ~SentHeaderAndValue) =>
        (pc = "returned" /\ err # "nil" /\ stat = NilStat)

\* C14's case: the server closed in the middle of the JSON text and
\* GetStatus returned the decoder's error.
C14_Witness ==
    /\ pc = "returned" /\ srvMode = "close" /\ i = DiscardCount
    /\ rpos = Len(resp) /\ err = "unexpected EOF"

\* The number the JSON value v spells is the integer x.
IsInteger(v, x) == v.t = "num" /\ v.n = x /\ \A k \in 1..Len(v.s) : v.s[k] = 48

-----------------------------------------------------------------------------
(* The claims about the service.                                           *)

\* Every connection has been used by one caller, the one whose DialTCP
\* opened it, and no two callers hold the same connection.
EachCallOwnsItsConnection ==
    /\ \A k \in 1..Len(conns) : Cardinality(conns[k].users) = 1
    /\ \A c \in Callers : calls[c].netConn # 0 => conns[calls[c].netConn].users = {c}
    /\ \A c, d \in Callers :
        (c # d /\ calls[c].netConn # 0) => calls[c].netConn # calls[d].netConn

\* C11: however the requests interleave, each request that fetches the
\* status does it on a connection its own GetStatus opened; no connection is
\* read, written or closed by more than one request; and while requests are
\* served no step writes the globals Config and MinecraftAddress.
C11_OwnConnectionNoSharedWrite ==
    /\ []EachCallOwnsItsConnection
    /\ [][mpc = "serving" => (Config' = Config /\ MinecraftAddress' = MinecraftAddress)]_vars

\* C11's case: two requests are in GetStatus at once, each with its
\* connection open, behind the connection of main's debug check.
C11_Witness ==
    /\ Len(conns) = 3
    /\ \E r, q \in Requests :
        /\ r # q /\ calls[r].pc = "read" /\ calls[q].pc = "read"
        /\ conns[calls[r].netConn].state = "open" /\ conns[calls[q].netConn].state = "open"

\* The handler of request r is done and its GetStatus returned an error.
FetchFailed(r) ==
    /\ reqs[r].hpc \notin {"idle", "report"}
    /\ calls[r].pc = "returned" /\ calls[r].err # "nil"

\* C13 as stated: every request whose status fetch failed with an error is
\* answered with the text "Oops: " and the error message behind it.
C13_EveryFailureRepliesOops ==
    \A r \in Requests : FetchFailed(r) =>
        /\ reqs[r].hpc = "replied"
        /\ reqs[r].reply = JsonReply(MarshalSlackResponse(Str_Oops \o ErrorText(calls[r].err)))

\* C13 amended: every request but a GET whose status fetch returned an
\* error is answered with the text "Oops: " and the error message behind
\* it; a GET whose fetch returned an error is answered with HTTP status 500
\* and the error message alone.
C13_PostFailureRepliesOops ==
    \A r \in Requests : FetchFailed(r) =>
        /\ reqs[r].hpc = "replied"
        /\ reqs[r].reply =
              IF reqs[r].method = "GET" THEN HttpError(ErrorText(calls[r].err), 500)
              ELSE JsonReply(MarshalSlackResponse(Str_Oops \o ErrorText(calls[r].err)))

\* C13's case: a POST of the command "status" has been answered behind a
\* connection the server closed in the middle of the JSON text.
C13_Witness ==
    \E r \in Requests :
        /\ FetchFailed(r) /\ reqs[r].method = "POST"
        /\ calls[r].err = "unexpected EOF" /\ reqs[r].hpc = "replied"

\* C16: whenever GetStatus has returned, exactly one of stat and err is
\* nil, and neither StatusReport nor main's debug check has dereferenced a
\* nil stat.
C16_ExactlyOneOfStatAndErr ==
    /\ \A c \in Callers :
        calls[c].pc = "returned" => ((calls[c].stat = NilStat) # (calls[c].err = "nil"))
    /\ mpc # "nil dereference"
    /\ \A r \in Requests : reqs[r].hpc # "nil dereference"

\* C16's case: main's debug check has logged the Motd of a status and a
\* request has been answered from a status, another from an error.
C16_Witness ==
    /\ mpc = "serving" /\ calls[Main].stat # NilStat
    /\ \E r, q \in Requests :
        /\ reqs[r].hpc = "replied" /\ calls[r].pc = "returned" /\ calls[r].stat # NilStat
        /\ reqs[q].hpc = "replied" /\ calls[q].pc = "returned" /\ calls[q].err # "nil"

\* a and b are the same text but for the case of the letters A to Z.
EqualsIgnoringCase(a, b) ==
    /\ Len(a) = Len(b)
    /\ \A k \in 1..Len(a) :
        \/ a[k] = b[k]
        \/ a[k] \in 65..90 /\ b[k] = a[k] + 32
        \/ b[k] \in 65..90 /\ a[k] = b[k] + 32

\* Request r has called GetStatus or used a connection.
UsedNetwork(r) == calls[r].pc # "idle" \/ \E k \in 1..Len(conns) : r \in conns[k].users

\* C17: of the requests StatusRespond handles (all but the GETs), one
\* calls GetStatus only when its text is "status" but for the case; one
\* with any other text is answered "<user>: The term <text> is not a known
\* command." without an error and without a call of GetStatus or a use of a
\* connection; and the answer starts with the user name exactly when the
\* error is nil.
C17_StatusRespondDispatch ==
    \A r \in Requests : (reqs[r].hpc # "idle" /\ reqs[r].method # "GET") =>
        /\ UsedNetwork(r) => EqualsIgnoringCase(reqs[r].Text, Str_status)
        /\ ~EqualsIgnoringCase(reqs[r].Text, Str_status) =>
            /\ reqs[r].hpc = "replied" /\ ~UsedNetwork(r) /\ calls[r].err = "nil"
            /\ reqs[r].reply.body =
                  MarshalSlackResponse(reqs[r].UserName \o Str_Colon \o Str_TheTerm
                                       \o reqs[r].Text \o Str_NotKnown)
        /\ reqs[r].hpc = "replied" =>
            (IsPrefix(Str_TextOpen \o <<34>> \o reqs[r].UserName \o Str_Colon, reqs[r].reply.body)
                <=> calls[r].err = "nil")

\* C17's case: "statuses" has been answered as no known command, the
\* command "STATUS" with the status and the user name before it.
C17_Witness ==
    \E r, q \in Requests :
        /\ reqs[r].hpc = "replied" /\ reqs[r].method = "POST" /\ calls[r].pc = "idle"
        /\ Len(reqs[r].Text) = 8
        /\ reqs[q].hpc = "replied" /\ reqs[q].method = "POST" /\ calls[q].stat # NilStat
        /\ reqs[q].Text # Str_status

\* C18: a request is handled only while the server serves, and the server
\* serves only behind a decoded configuration, a resolved address and, in
\* debug mode, a GetStatus of main that returned a status; every GetStatus
\* of a handler has dialled the one address main resolved, which is not
\* nil; and when main has ended on a failed step no request was ever
\* handled.
C18_ServesOnlyAfterStartup ==
    /\ (\E r \in Requests : reqs[r].hpc # "idle") => mpc = "serving"
    /\ mpc = "serving" =>
        /\ Config # <<>> /\ MinecraftAddress # <<>>
        /\ IF Config[1].Debug
           THEN calls[Main].pc = "returned" /\ calls[Main].err = "nil" /\ calls[Main].stat # NilStat
           ELSE calls[Main].pc = "idle"
    /\ \A r \in Requests : calls[r].pc \notin {"idle", "dial"} =>
        (calls[r].raddr # <<>> /\ calls[r].raddr = MinecraftAddress)
    /\ mpc \in {"exited", "crashed", "nil dereference"} =>
        \A r \in Requests : reqs[r].hpc = "idle" /\ calls[r].pc = "idle"

\* C18's case: in debug mode, behind main's successful GetStatus, a
\* handler's GetStatus has dialled the resolved address.
C18_Witness ==
    /\ mpc = "serving" /\ Config[1].Debug
    /\ \E r \in Requests : calls[r].pc = "read" /\ calls[r].raddr = MinecraftAddress

=============================================================================
